---- MODULE Spec2Model ----
(***************************************************************************)
(* Dependency-graph extractor of suite/analyzer.py: the call-expression    *)
(* scanner (FunctionCallVisitor, find_function_calls), the symbol resolver *)
(* (get_function_by_name), the record builder (extract_function_info) and  *)
(* the recursive tree builder (build_dependency_tree).                     *)
(***************************************************************************)
EXTENDS Integers, Sequences, FiniteSets, TLC

VARIABLES
    defs,          \* the analysed module's functions: id -> [name, kind, body]
    attrM,         \* what the module's attribute o.m is bound to
    entry,         \* func argument of the running / last top-level call
    max_depth,     \* max_depth argument of the running / last top-level call
    stack,         \* active build_dependency_tree invocations, root first
    visited,       \* the visited set object threaded through one top-level call
    status,        \* "idle" | "running" | "done" | "raised"
    result,        \* FunctionInfo returned by the last completed top-level call
    exc,           \* exception that escaped the top-level call, or NoExc
    prevResult,    \* history: tree of the previous call when this call repeats it
    scanTree,      \* scanner input: the tree ast.parse gave find_function_calls
    scanState,     \* "ready" | "scanned" | "raised"
    scanCalls      \* scanner output: the set find_function_calls returned

vars == <<defs, attrM, entry, max_depth, stack, visited, status, result, exc,
          prevResult, scanTree, scanState, scanCalls>>

builderVars == <<defs, attrM, entry, max_depth, stack, visited, status, result,
                 exc, prevResult>>

scanVars == <<scanTree, scanState, scanCalls>>

\* Python's None where a string is expected, and where an object is expected
None == "None"
NoneVal == [type |-> "NoneType"]
NoSource == <<"None">>

\* Source text. The analysed functions' bodies are runs of call statements,
\* written as the sequence of their call targets: <<"f", "o.m">> is the text
\* "f(); o.m()". Garbled is text that ast.parse rejects.
Garbled == <<"?">>

\* ------------------------------------------------------------------------
\* Bounds of the model
\* ------------------------------------------------------------------------

\* largest max_depth argument tried (the smallest is -1)
MaxDepth == 2

\* nesting depth of the expressions generated as scanner inputs
MaxExprDepth == 2

\* ------------------------------------------------------------------------
\* Syntax trees (the ast module's node classes the visitor meets)
\* ------------------------------------------------------------------------

Name(id) == [type |-> "Name", id |-> id]
Attribute(value, attr) == [type |-> "Attribute", value |-> value, attr |-> attr]
Call(func, args) == [type |-> "Call", func |-> func, args |-> args]
Lambda(body) == [type |-> "Lambda", body |-> body]
Expr(value) == [type |-> "Expr", value |-> value]
FunctionDef(name, body) == [type |-> "FunctionDef", name |-> name, body |-> body]
Module(body) == [type |-> "Module", body |-> body]

\* ast.iter_child_nodes: the child nodes generic_visit walks, in field order
Children(node) ==
    CASE node.type = "Call" -> <<node.func>> \o node.args
      [] node.type = "Attribute" -> <<node.value>>
      [] node.type = "Lambda" -> <<node.body>>
      [] node.type = "Expr" -> <<node.value>>
      [] node.type = "FunctionDef" -> node.body
      [] node.type = "Module" -> node.body
      [] OTHER -> <<>>

\* f"{node.func.value.id}.{node.func.attr}"
DottedName(id, attr) == id \o "." \o attr

\* generic_visit skipped after a Call node was handled
CallChildrenNoDescent(node) == <<>>

\* the nodes visited below a Call node: self.generic_visit(node)
CallChildren(node) == Children(node)

\* the two branches of visit_Call that add to self.function_calls
CallTargets(node) ==
    IF node.func.type = "Name"
    THEN {node.func.id}
    ELSE IF node.func.type = "Attribute" /\ node.func.value.type = "Name"
         THEN {DottedName(node.func.value.id, node.func.attr)}
         ELSE {}

RECURSIVE Visit(_)

\* NodeVisitor.visit with visit_Call overridden: the names the visit of node
\* adds to self.function_calls
Visit(node) ==
    LET added == IF node.type = "Call" THEN CallTargets(node) ELSE {}
        below == IF node.type = "Call" THEN CallChildren(node) ELSE Children(node)
    IN  added \cup UNION {Visit(child) : child \in {below[i] : i \in DOMAIN below}}

\* the statement "f()" or "o.m()" a call target stands for
CallStmt(target) ==
    IF target = "o.m"
    THEN Expr(Call(Attribute(Name("o"), "m"), <<>>))
    ELSE Expr(Call(Name(target), <<>>))

\* ast.parse(textwrap.dedent(source)) raising SyntaxError
ParseRaises(source) == source = Garbled

\* ast.parse(textwrap.dedent(source)) of text that parses
Parse(source) ==
    Module(<<FunctionDef("_", [i \in DOMAIN source |-> CallStmt(source[i])])>>)

\* visitor = FunctionCallVisitor(); visitor.visit(tree); visitor.function_calls
VisitTree(tree) == {} \cup Visit(tree)

\* find_function_calls on a function whose extract_source gave `source`,
\* where it does not raise
find_function_calls(source) ==
    IF source # NoSource
    THEN VisitTree(Parse(source))
    ELSE {}

find_function_calls_raises(source) == source # NoSource /\ ParseRaises(source)

\* ------------------------------------------------------------------------
\* The analysed module: three callables, reachable by the call targets
\* "f", "g" and "o.m"
\* ------------------------------------------------------------------------

Funcs == {1, 2, 3}

\* call targets in the order the generated source texts mention them
TargetOrder == <<"f", "g", "o.m">>

Targets == {TargetOrder[i] : i \in DOMAIN TargetOrder}

\* source text of a function that calls exactly the targets in S
Body(S) == SelectSeq(TargetOrder, LAMBDA t : t \in S)

\* kinds of callable the host runtime can hand to the analyzer:
\*   py      a Python function with retrievable, well-formed source
\*   builtin implemented in C: getsource, getfile, getsourcelines raise TypeError
\*   nosrc   a Python function whose source text is gone (built by exec):
\*           getsource and getsourcelines raise OSError
\*   badsrc  getsource returns a fragment ast.parse rejects (SyntaxError)
\*   noname  a callable object without __name__ (a functools.partial)
Kinds == {"py", "builtin", "nosrc", "badsrc", "noname"}

Def(name, kind, body) == [name |-> name, kind |-> kind, body |-> body]

\* values a name of the module can be bound to
FuncVal(id) == [type |-> "func", id |-> id]
IntVal(n) == [type |-> "int", v |-> n]
ObjVal(attrs) == [type |-> "obj", attrs |-> attrs]
Absent == [type |-> "absent"]

Ok(v) == [ok |-> TRUE, val |-> v, err |-> ""]
Raise(e) == [ok |-> FALSE, val |-> None, err |-> e]

\* ------------------------------------------------------------------------
\* Introspection primitives of the host runtime
\* ------------------------------------------------------------------------

\* func.__name__
GetName(d) == IF d.kind = "noname" THEN Raise("AttributeError") ELSE Ok(d.name)

\* inspect.getdoc(func)
GetDoc(d) == Ok(IF d.kind \in {"py", "builtin"} THEN "doc" ELSE None)

\* inspect.getsource(func)
GetSource(d) ==
    CASE d.kind = "py" -> Ok(d.body)
      [] d.kind = "badsrc" -> Ok(Garbled)
      [] d.kind = "nosrc" -> Raise("OSError")
      [] OTHER -> Raise("TypeError")

\* inspect.getfile(func)
GetFile(d) ==
    CASE d.kind \in {"py", "badsrc"} -> Ok("m.py")
      [] d.kind = "nosrc" -> Ok("<string>")
      [] OTHER -> Raise("TypeError")

\* inspect.getsourcelines(func)[1]
GetSourceLine(d, id) ==
    CASE d.kind \in {"py", "badsrc"} -> Ok(id)
      [] d.kind = "nosrc" -> Raise("OSError")
      [] OTHER -> Raise("TypeError")

\* ------------------------------------------------------------------------
\* extract_* helpers and extract_function_info
\* ------------------------------------------------------------------------

\* except TypeError: return <default>
CatchTypeError(r, default) ==
    IF ~r.ok /\ r.err = "TypeError" THEN Ok(default) ELSE r

extract_docstring(d) == CatchTypeError(GetDoc(d), "")

extract_source(d) == CatchTypeError(GetSource(d), NoSource)

extract_source_file(d) == CatchTypeError(GetFile(d), None)

\* an absent line number is written 0 (line numbers are 1-based)
extract_line_number(d, id) == CatchTypeError(GetSourceLine(d, id), 0)

FunctionInfo(name, docstring, source, source_file, line_number) ==
    [name |-> name, docstring |-> docstring, source |-> source,
     source_file |-> source_file, line_number |-> line_number,
     dependencies |-> <<>>]

\* the keyword arguments are evaluated in order; the first one that raises
\* ends the construction
extract_function_info(d, id) ==
    IF ~GetName(d).ok THEN Raise(GetName(d).err)
    ELSE IF ~extract_docstring(d).ok THEN Raise(extract_docstring(d).err)
    ELSE IF ~extract_source(d).ok THEN Raise(extract_source(d).err)
    ELSE IF ~extract_source_file(d).ok THEN Raise(extract_source_file(d).err)
    ELSE IF ~extract_line_number(d, id).ok
    THEN Raise(extract_line_number(d, id).err)
    ELSE Ok(FunctionInfo(GetName(d).val, extract_docstring(d).val,
                         extract_source(d).val, extract_source_file(d).val,
                         extract_line_number(d, id).val))

\* ------------------------------------------------------------------------
\* get_function_by_name
\* ------------------------------------------------------------------------

Idents == {"f", "g", "o", "m"}

RECURSIVE JoinDots(_)
JoinDots(parts) ==
    IF Len(parts) = 1
    THEN parts[1]
    ELSE parts[1] \o "." \o JoinDots(Tail(parts))

\* name.split("."): the dot-free parts whose join is name
SplitDots(name) ==
    CHOOSE parts \in {<<a>> : a \in Idents} \cup (Idents \X Idents) :
        JoinDots(parts) = name

\* the module object the analysed functions live in
ModuleScope(m) ==
    ObjVal([f |-> FuncVal(1),
            g |-> FuncVal(2),
            o |-> ObjVal(IF m = Absent THEN <<>> ELSE [m |-> m])])

hasattr(obj, name) == obj.type = "obj" /\ name \in DOMAIN obj.attrs

getattr(obj, name) == obj.attrs[name]

callable(v) == v.type = "func"

\* bool(v)
Truthy(v) == v # NoneVal /\ v # IntVal(0)

RECURSIVE WalkParts(_, _)
WalkParts(parts, obj) ==
    IF parts = <<>>
    THEN obj
    ELSE IF hasattr(obj, Head(parts))
         THEN WalkParts(Tail(parts), getattr(obj, Head(parts)))
         ELSE NoneVal

get_function_by_name(name, module) ==
    IF hasattr(module, name)
    THEN getattr(module, name)
    ELSE IF Len(SplitDots(name)) > 1
         THEN WalkParts(SplitDots(name), module)
         ELSE IF \E key \in DOMAIN module.attrs :
                     key = name /\ callable(module.attrs[key])
              THEN module.attrs[name]
              ELSE NoneVal

\* ------------------------------------------------------------------------
\* build_dependency_tree
\* ------------------------------------------------------------------------

NoExc == [kind |-> "none", origin |-> "", depth |-> 0]
NoResult == [name |-> "", dependencies |-> <<>>, absent |-> TRUE]

\* func_key = f"{func_info.source_file}:{func_info.name}"
FuncKey(func_info) == func_info.source_file \o ":" \o func_info.name

\* the cycle guard without its test
NeverVisited(func_key, vis) == FALSE

\* if func_key in visited
InVisited(func_key, vis) == func_key \in vis

\* the depth guard letting one more level through
DepthGuardOffByOne(current_depth, maxd) == current_depth > maxd

\* if current_depth >= max_depth
DepthGuard(current_depth, maxd) == current_depth >= maxd

\* a visited set that outlives the call (a shared default argument)
SharedVisited(old) == old

\* if visited is None: visited = set()
FreshVisited(old) == {}

\* key recorded only for functions that get expanded
AddOnlyWhenExpanded(vis, func_key, current_depth, maxd) ==
    IF DepthGuard(current_depth, maxd) THEN vis ELSE vis \cup {func_key}

\* visited.add(func_key), executed before the depth guard
VisitedAdd(vis, func_key, current_depth, maxd) == vis \cup {func_key}

\* except (OSError, TypeError)
Caught(kind) == kind \in {"OSError", "TypeError"}

\* the body of one invocation up to its for loop: what it does to visited and
\* whether it raises, returns func_info at once, or starts iterating
Enter(id, current_depth, maxd, vis) ==
    LET d == defs[id]
        r == extract_function_info(d, id)
        func_info == r.val
        func_key == FuncKey(func_info)
        vis2 == VisitedAdd(vis, func_key, current_depth, maxd)
        src == extract_source(d).val
        base == [outcome |-> "return", kind |-> "none", origin |-> "",
                 func_info |-> NoResult, visited |-> vis, function_calls |-> {}]
    IN  IF ~r.ok
        THEN [base EXCEPT !.outcome = "raise", !.kind = r.err,
                          !.origin = "extract_function_info"]
        ELSE IF InVisited(func_key, vis)
        THEN [base EXCEPT !.func_info = func_info]
        ELSE IF DepthGuard(current_depth, maxd)
        THEN [base EXCEPT !.func_info = func_info, !.visited = vis2]
        ELSE IF find_function_calls_raises(src)
        THEN [base EXCEPT !.outcome = "raise", !.kind = "SyntaxError",
                          !.origin = "find_function_calls", !.visited = vis2]
        ELSE [base EXCEPT !.outcome = "loop", !.func_info = func_info,
                          !.visited = vis2,
                          !.function_calls = find_function_calls(src)]

Frame(id, current_depth, e) ==
    [func |-> id, current_depth |-> current_depth, func_info |-> e.func_info,
     function_calls |-> e.function_calls]

Top == stack[Len(stack)]

\* func_info.dependencies.append(dep_info) in the innermost invocation
AppendDep(stk, dep_info) ==
    [stk EXCEPT ![Len(stk)].func_info.dependencies = Append(@, dep_info)]

\* the loop variable never advancing past a target
SameCalls(calls, call_name) == calls

\* for call_name in function_calls: the targets still to be iterated
RestCalls(calls, call_name) == calls \ {call_name}

Advance(stk, call_name) ==
    [stk EXCEPT ![Len(stk)].function_calls = RestCalls(@, call_name)]

RECURSIVE Unordered(_)
\* tree t with the order of every dependencies sequence forgotten
Unordered(t) ==
    [record |-> [t EXCEPT !.dependencies = <<>>],
     dependencies |-> {Unordered(t.dependencies[i]) : i \in DOMAIN t.dependencies}]

\* build_dependency_tree(func, max_depth) entered with current_depth = 0 and
\* no visited argument
TopLevel(id, maxd) ==
    /\ \E e \in {Enter(id, 0, maxd, FreshVisited(visited))} :
           /\ entry' = id
           /\ max_depth' = maxd
           /\ visited' = e.visited
           /\ stack' = IF e.outcome = "loop" THEN <<Frame(id, 0, e)>> ELSE <<>>
           /\ status' = CASE e.outcome = "loop" -> "running"
                          [] e.outcome = "return" -> "done"
                          [] OTHER -> "raised"
           /\ result' = IF e.outcome = "return" THEN e.func_info ELSE NoResult
           /\ exc' = IF e.outcome = "raise"
                     THEN [kind |-> e.kind, origin |-> e.origin, depth |-> 0]
                     ELSE NoExc
    /\ UNCHANGED <<defs, attrM, scanVars>>

\* a top-level call made by the harness
Start(id, maxd) ==
    /\ status # "running"
    /\ TopLevel(id, maxd)
    /\ prevResult' = NoResult

\* the harness makes its last call once more, with the same arguments; the
\* earlier call's tree is kept for comparison (without the order of its
\* dependencies sequences)
Repeat ==
    /\ status = "done"
    /\ TopLevel(entry, max_depth)
    /\ prevResult' = Unordered(result)

\* one iteration of the for loop of the innermost invocation (lines 245-255);
\* the set is iterated in whatever order the runtime's hashing gives
LoopStep(call_name) ==
    /\ status = "running"
    /\ call_name \in Top.function_calls
    /\ \E dep_func \in {get_function_by_name(call_name, ModuleScope(attrM))} :
       \E depth \in {Top.current_depth + 1} :
       \E next \in {Advance(stack, call_name)} :
           IF ~(Truthy(dep_func) /\ callable(dep_func))
           THEN /\ stack' = next
                /\ UNCHANGED <<visited, status, exc>>
           ELSE \E e \in {Enter(dep_func.id, depth, max_depth, visited)} :
                /\ visited' = e.visited
                /\ stack' = CASE e.outcome = "loop" ->
                                     Append(next, Frame(dep_func.id, depth, e))
                              [] e.outcome = "return" ->
                                     AppendDep(next, e.func_info)
                              [] e.outcome = "raise" /\ Caught(e.kind) -> next
                              [] OTHER -> <<>>
                /\ status' = IF e.outcome = "raise" /\ ~Caught(e.kind)
                             THEN "raised"
                             ELSE "running"
                /\ exc' = IF e.outcome = "raise" /\ ~Caught(e.kind)
                          THEN [kind |-> e.kind, origin |-> e.origin,
                                depth |-> depth]
                          ELSE NoExc
    /\ UNCHANGED <<defs, attrM, entry, max_depth, result, prevResult, scanVars>>

\* the loop is exhausted: return func_info (line 257) to the caller
LoopReturn ==
    /\ status = "running"
    /\ Top.function_calls = {}
    /\ IF Len(stack) = 1
       THEN /\ result' = Top.func_info
            /\ status' = "done"
            /\ stack' = <<>>
       ELSE /\ stack' = AppendDep(SubSeq(stack, 1, Len(stack) - 1), Top.func_info)
            /\ UNCHANGED <<result, status>>
    /\ UNCHANGED <<defs, attrM, entry, max_depth, visited, exc, prevResult,
                   scanVars>>

\* ------------------------------------------------------------------------
\* The scanner run on its own
\* ------------------------------------------------------------------------

ScanIds == {"g", "o"}

RECURSIVE ExprsAt(_)
\* expressions nested at most n deep over the ids g, o and the attribute m
ExprsAt(n) ==
    IF n = 0
    THEN {Name(i) : i \in ScanIds}
    ELSE LET E == ExprsAt(n - 1)
         IN  E \cup {Attribute(e, "m") : e \in E}
               \cup {Call(e, <<>>) : e \in E}
               \cup {Call(e, <<a>>) : e \in E, a \in E}
               \cup {Lambda(e) : e \in E}

\* def f(): g(); o.m(); (lambda: h())()
ExampleSource ==
    FunctionDef("f", <<Expr(Call(Name("g"), <<>>)),
                       Expr(Call(Attribute(Name("o"), "m"), <<>>)),
                       Expr(Call(Lambda(Call(Name("h"), <<>>)), <<>>))>>)

ScanTrees ==
    {Module(<<FunctionDef("f", <<Expr(e)>>)>>) : e \in ExprsAt(MaxExprDepth)}
        \cup {Module(<<ExampleSource>>)}

\* lines 166-168 of find_function_calls, on the parsed tree scanTree
Scan ==
    /\ scanState = "ready"
    /\ scanState' = "scanned"
    /\ scanCalls' = VisitTree(scanTree)
    /\ UNCHANGED <<scanTree, builderVars>>

\* ------------------------------------------------------------------------
\* Specifications
\* ------------------------------------------------------------------------

PyDefs(names) ==
    {Def(n, "py", Body(S)) : n \in names, S \in SUBSET Targets}

\* what o.m is: a Python function named m or (like function 2) g, a callable
\* of another kind, a non-callable value, or nothing
Thirds ==
    {<<d, FuncVal(3)>> : d \in PyDefs({"m", "g"})}
        \cup {<<Def("m", k, Garbled), FuncVal(3)>> : k \in Kinds \ {"py"}}
        \cup {<<Def("m", "py", Body({})), a>> : a \in {Absent, IntVal(0)}}

DepthArgs == -1..MaxDepth

InitBuilder ==
    /\ \E d1 \in PyDefs({"f"}), d2 \in PyDefs({"g"}), t \in Thirds :
           /\ defs = <<d1, d2, t[1]>>
           /\ attrM = t[2]
    /\ entry = 1
    /\ max_depth = 0
    /\ stack = <<>>
    /\ visited = {}
    /\ status = "idle"
    /\ result = NoResult
    /\ exc = NoExc
    /\ prevResult = NoResult

Init ==
    /\ InitBuilder
    /\ scanTree = Module(<<>>)
    /\ scanState = "ready"
    /\ scanCalls = {}

Next ==
    \/ \E id \in Funcs, maxd \in DepthArgs : Start(id, maxd)
    \/ \E call_name \in Targets : LoopStep(call_name)
    \/ LoopReturn

Spec == Init /\ [][Next]_vars

\* the recursion is synchronous: a running call always takes its next step;
\* the harness is free to stop making top-level calls
Running == (\E call_name \in Targets : LoopStep(call_name)) \/ LoopReturn

LiveSpec == Init /\ [][Next]_vars /\ WF_vars(Running)

NextRepeat == Next \/ Repeat

RepeatSpec == Init /\ [][NextRepeat]_vars

InitScan ==
    /\ scanTree \in ScanTrees
    /\ scanState = "ready"
    /\ scanCalls = {}
    /\ defs = <<Def("f", "py", Body({})), Def("g", "py", Body({})),
                Def("m", "py", Body({}))>>
    /\ attrM = FuncVal(3)
    /\ entry = 1
    /\ max_depth = 0
    /\ stack = <<>>
    /\ visited = {}
    /\ status = "idle"
    /\ result = NoResult
    /\ exc = NoExc
    /\ prevResult = NoResult

NextScan == Scan

ScanSpec == InitScan /\ [][NextScan]_vars

\* ------------------------------------------------------------------------
\* Reading a returned tree
\* ------------------------------------------------------------------------

RECURSIVE Height(_)
\* the largest number of dependency edges below record t
Height(t) ==
    IF t.dependencies = <<>>
    THEN 0
    ELSE LET hs == [i \in DOMAIN t.dependencies |-> Height(t.dependencies[i])]
         IN  1 + hs[CHOOSE i \in DOMAIN hs : \A j \in DOMAIN hs : hs[i] >= hs[j]]

RECURSIVE TreeKeys(_)
\* the visit keys of the records of tree t
TreeKeys(t) ==
    {FuncKey(t)} \cup UNION {TreeKeys(t.dependencies[i]) : i \in DOMAIN t.dependencies}

\* record t without its dependencies
Stub(t) == [t EXCEPT !.dependencies = <<>>]

\* the callables the call targets in the source text of record t resolve to
ResolvedCallables(t) ==
    IF t.source = NoSource \/ ParseRaises(t.source)
    THEN {}
    ELSE {v.id : v \in
            {w \in {get_function_by_name(c, ModuleScope(attrM)) :
                        c \in find_function_calls(t.source)} :
                Truthy(w) /\ callable(w)}}

\* ... whose own analysis is not skipped by the except clause
Analysable(t) ==
    {id \in ResolvedCallables(t) : extract_function_info(defs[id], id).ok}

\* the records the dependencies of an expanded record t stand for
ExpectedStubs(t) ==
    {extract_function_info(defs[id], id).val : id \in Analysable(t)}

\* record t carries exactly one dependency per analysable call target
FullyExpanded(t) ==
    /\ Len(t.dependencies) = Cardinality(Analysable(t))
    /\ {Stub(t.dependencies[i]) : i \in DOMAIN t.dependencies} = ExpectedStubs(t)

\* ------------------------------------------------------------------------
\* C1  Depth bound
\* ------------------------------------------------------------------------

\* C1: a tree returned by a top-level call with max_depth = d >= 0 has no
\* record more than d dependency edges below the root (none at all for d = 0).
DepthBound ==
    (status = "done" /\ max_depth >= 0) => Height(result) <= max_depth

\* a chain root -> a -> b of three different keys where b, at depth 2 =
\* max_depth, is cut although its source text makes calls
DepthBoundWitness ==
    /\ status = "done"
    /\ max_depth = 2
    /\ \E i \in DOMAIN result.dependencies :
         LET a == result.dependencies[i]
         IN  \E j \in DOMAIN a.dependencies :
               LET b == a.dependencies[j]
               IN  /\ Cardinality({FuncKey(result), FuncKey(a), FuncKey(b)}) = 3
                   /\ Analysable(b) # {}
                   /\ b.dependencies = <<>>

\* ------------------------------------------------------------------------
\* C3  Cycle and self-call truncation
\* ------------------------------------------------------------------------

RECURSIVE CycleTruncated(_, _)
\* every record of t whose key is in anc or belongs to one of its own
\* ancestors within t has no dependencies
CycleTruncated(t, anc) ==
    /\ FuncKey(t) \in anc => t.dependencies = <<>>
    /\ \A i \in DOMAIN t.dependencies :
           CycleTruncated(t.dependencies[i], anc \cup {FuncKey(t)})

\* C3: in a returned tree, a record whose visit key equals the key of one of
\* its ancestors has empty dependencies, whatever max_depth is.
CycleSafety == status = "done" => CycleTruncated(result, {})

\* the root calls itself: its child with the root's key sits at depth 1 with
\* depth to spare (max_depth = 2), makes calls, and is left without dependencies
CycleSafetyWitness ==
    /\ status = "done"
    /\ max_depth = 2
    /\ \E i \in DOMAIN result.dependencies :
           /\ FuncKey(result.dependencies[i]) = FuncKey(result)
           /\ Analysable(result.dependencies[i]) # {}
           /\ result.dependencies[i].dependencies = <<>>

\* ------------------------------------------------------------------------
\* C8  Fresh visited set per top-level call
\* ------------------------------------------------------------------------

\* the keys of the records the running or just completed call has built
CallKeys ==
    IF status = "done"
    THEN TreeKeys(result)
    ELSE UNION {TreeKeys(stack[i].func_info) : i \in DOMAIN stack}

\* C8: each top-level call starts from an empty visited set: the set holds
\* only keys of records built by the call itself, and a call made again after
\* an earlier one expands its entry function exactly as the earlier call did.
FreshVisitedPerCall ==
    /\ status \in {"running", "done"} => visited \subseteq CallKeys
    /\ (status = "done" /\ prevResult # NoResult) =>
           Len(result.dependencies) = Cardinality(prevResult.dependencies)

\* a later call has returned, and the function the earlier call expanded (its
\* key went into that call's visited set) is expanded again
FreshVisitedWitness ==
    /\ status = "done"
    /\ prevResult # NoResult
    /\ prevResult.dependencies # {}
    /\ result.dependencies # <<>>
    /\ FuncKey(result) \in visited

\* ------------------------------------------------------------------------
\* C10  Determinism
\* ------------------------------------------------------------------------

\* no two functions of the module share a visit key
DistinctKeys == \A i, j \in Funcs : i # j => defs[i].name # defs[j].name

\* C10: two top-level calls with the same entry callable and max_depth over
\* the same module return the same tree; in particular the same records carry
\* dependencies and the same records are stubs. (Stated up to the order of
\* the dependencies sequences, and for modules without key collisions.)
Determinism ==
    (status = "done" /\ prevResult # NoResult /\ DistinctKeys) =>
        Unordered(result) = prevResult

\* ------------------------------------------------------------------------
\* C7  Discovery order
\* ------------------------------------------------------------------------

RECURSIVE VisitOrder(_, _)
RECURSIVE VisitOrderEach(_, _)

\* the call targets in the order visit_Call first meets them (order is the
\* sequence of targets met so far)
VisitOrder(node, order) ==
    LET new == IF node.type = "Call"
               THEN {c \in CallTargets(node) : \A i \in DOMAIN order : order[i] # c}
               ELSE {}
        met == IF new = {} THEN order ELSE Append(order, CHOOSE c \in new : TRUE)
    IN  VisitOrderEach(Children(node), met)

VisitOrderEach(nodes, order) ==
    IF nodes = <<>>
    THEN order
    ELSE VisitOrderEach(Tail(nodes), VisitOrder(Head(nodes), order))

\* the analysable callables of record t in the order the scanner discovers
\* their call targets in the source text of t
DiscoveryOrder(t) ==
    LET targets == IF t.source = NoSource \/ ParseRaises(t.source)
                   THEN <<>>
                   ELSE VisitOrder(Parse(t.source), <<>>)
        resolved == [i \in DOMAIN targets |->
                        get_function_by_name(targets[i], ModuleScope(attrM))]
        kept == SelectSeq(resolved,
                          LAMBDA v : Truthy(v) /\ callable(v) /\ v.id \in Analysable(t))
    IN  [i \in DOMAIN kept |-> extract_function_info(defs[kept[i].id], kept[i].id).val]

RECURSIVE InDiscoveryOrder(_)
InDiscoveryOrder(t) ==
    /\ t.dependencies # <<>> =>
           [i \in DOMAIN t.dependencies |-> Stub(t.dependencies[i])] = DiscoveryOrder(t)
    /\ \A i \in DOMAIN t.dependencies : InDiscoveryOrder(t.dependencies[i])

\* C7: in every record of a returned tree the dependencies sequence lists the
\* resolved call targets in the order of their first occurrence in the
\* function's source text.
DependenciesInDiscoveryOrder == status = "done" => InDiscoveryOrder(result)

\* ------------------------------------------------------------------------
\* C5  Failure isolation
\* ------------------------------------------------------------------------

\* C5: no failure raised inside the analysis of a dependency (an invocation at
\* current_depth >= 1) escapes the top-level call.
FailureIsolation == ~(status = "raised" /\ exc.depth >= 1)

\* ------------------------------------------------------------------------
\* C6  Best-effort record
\* ------------------------------------------------------------------------

\* C6: extract_function_info never raises because an introspection primitive
\* reported an error: the field concerned is None and the record is returned.
BestEffortRecord ==
    ~(/\ status = "raised"
      /\ exc.origin = "extract_function_info"
      /\ exc.kind \in {"OSError", "TypeError"})

\* ------------------------------------------------------------------------
\* C9  What the visited set truncates
\* ------------------------------------------------------------------------

RECURSIVE Preorder(_, _, _)
RECURSIVE PreorderEach(_, _, _)

\* the records of tree t in the order the builder created them, each with
\* its depth and the keys of its ancestors
Preorder(t, depth, anc) ==
    <<[record |-> t, depth |-> depth, anc |-> anc]>>
        \o PreorderEach(t.dependencies, depth + 1, anc \cup {FuncKey(t)})

PreorderEach(ts, depth, anc) ==
    IF ts = <<>>
    THEN <<>>
    ELSE Preorder(Head(ts), depth, anc) \o PreorderEach(Tail(ts), depth, anc)

\* the keys of the records created before the k-th one
ReachedBefore(pre, k) == {FuncKey(pre[j].record) : j \in 1..(k - 1)}

\* C9 as claimed: a record below max_depth whose key is not among its
\* ancestors carries one dependency per call target that resolved to a
\* callable (and whose analysis was not skipped), even when the same key was
\* reached earlier in a sibling branch.
TruncatesOnlyAlongPath ==
    status = "done" =>
        LET pre == Preorder(result, 0, {})
        IN  \A k \in DOMAIN pre :
              (pre[k].depth < max_depth /\ FuncKey(pre[k].record) \notin pre[k].anc)
                  => FullyExpanded(pre[k].record)

\* C9 amended: a record carries one dependency per analysable call target
\* exactly when it lies below max_depth and its key was not reached earlier in
\* the same top-level call, on its path or in any earlier branch, at any depth
\* (exactly max_depth included); every other record is a stub.
TruncatesOnceReached ==
    status = "done" =>
        LET pre == Preorder(result, 0, {})
        IN  \A k \in DOMAIN pre :
              IF /\ pre[k].depth < max_depth
                 /\ FuncKey(pre[k].record) \notin ReachedBefore(pre, k)
              THEN FullyExpanded(pre[k].record)
              ELSE pre[k].record.dependencies = <<>>

\* a record below max_depth, key not among its ancestors, with analysable call
\* targets, left a stub because its key was reached in an earlier sibling
\* branch at exactly max_depth
TruncatesOnceReachedWitness ==
    /\ status = "done"
    /\ DistinctKeys
    /\ LET pre == Preorder(result, 0, {})
       IN  \E k \in DOMAIN pre :
             /\ pre[k].depth < max_depth
             /\ FuncKey(pre[k].record) \notin pre[k].anc
             /\ \E j \in 1..(k - 1) :
                    /\ FuncKey(pre[j].record) = FuncKey(pre[k].record)
                    /\ pre[j].depth = max_depth
             /\ Analysable(pre[k].record) # {}
             /\ pre[k].record.dependencies = <<>>

\* ------------------------------------------------------------------------
\* C2  Termination
\* ------------------------------------------------------------------------

\* every callable of the module can be introspected and parsed
AllAnalysable == \A id \in Funcs : defs[id].kind \in {"py", "builtin"}

\* C2: every top-level call that started iterating eventually ends, whatever
\* the call graph (self-calls and mutual recursion included) and max_depth; it
\* ends by returning its tree, unless a callable that cannot be analysed made
\* it raise.
Termination ==
    (status = "running") ~>
        (status = "done" \/ (status = "raised" /\ ~AllAnalysable))

\* a call over a mutually recursive pair has returned: the root calls a, a
\* calls the root back, and the root's second occurrence closes the tree
TerminationWitness ==
    /\ status = "done"
    /\ max_depth = 2
    /\ \E i \in DOMAIN result.dependencies :
         LET a == result.dependencies[i]
         IN  /\ FuncKey(a) # FuncKey(result)
             /\ \E j \in DOMAIN a.dependencies :
                    /\ Stub(a.dependencies[j]) = Stub(result)
                    /\ a.dependencies[j].dependencies = <<>>

\* ------------------------------------------------------------------------
\* C4  Scanner precision
\* ------------------------------------------------------------------------

RECURSIVE Nodes(_)
\* node and every node below it
Nodes(node) ==
    {node} \cup UNION {Nodes(Children(node)[i]) : i \in DOMAIN Children(node)}

\* a call whose callee is a bare name or a single attribute of a bare name
SimpleCall(n) ==
    /\ n.type = "Call"
    /\ \/ n.func.type = "Name"
       \/ n.func.type = "Attribute" /\ n.func.value.type = "Name"

TargetOf(n) ==
    IF n.func.type = "Name" THEN n.func.id ELSE n.func.value.id \o "." \o n.func.attr

\* the targets of the simple calls anywhere in the tree
AllSimpleCalls(tree) == {TargetOf(n) : n \in {m \in Nodes(tree) : SimpleCall(m)}}

\* C4 as claimed, on its own example: a call that occurs only inside a more
\* complex call expression is not in the result, so the example source yields
\* exactly {"g", "o.m"}, without "h".
ScannerPrecision ==
    (scanState = "scanned" /\ scanTree = Module(<<ExampleSource>>)) =>
        (scanCalls = {"g", "o.m"} /\ "h" \notin scanCalls)

\* C4 amended: the scanner returns exactly the targets of the direct-name
\* calls and single-level attribute calls on a bare name found anywhere in the
\* source, those inside other call expressions (callee or argument) and inside
\* lambda bodies included; the example source yields {"g", "o.m", "h"}.
ScannerFindsNestedCalls ==
    scanState = "scanned" =>
        /\ scanCalls = AllSimpleCalls(scanTree)
        /\ scanTree = Module(<<ExampleSource>>) => scanCalls = {"g", "o.m", "h"}

\* the example source has been scanned and the call in the lambda was found
ScannerWitness ==
    /\ scanState = "scanned"
    /\ scanTree = Module(<<ExampleSource>>)
    /\ "h" \in scanCalls

====
